---- MODULE Spec2Model ----
(***************************************************************************)
(* Model of metapool/sequencers.py: the sequencer-type catalog, the legacy *)
(* instrument registry, machine-prefix extraction and the catalog queries. *)
(*                                                                         *)
(* Python values are tagged records [kind, val]:                           *)
(*   str / bool / none              scalars                                *)
(*   dict / proxy                   val = sequence of [k, v] items, in     *)
(*                                  insertion order (proxy is a            *)
(*                                  MappingProxyType)                      *)
(*   list / tuple                   val = sequence of values               *)
(*   set / frozenset                val = set of values                    *)
(* Instrument ids and run identifiers are sequences of one-character       *)
(* strings, so that the regular expression and split() act on characters.  *)
(* Every function of the module is an operator returning                   *)
(*   [res |-> outcome, reads |-> number of file reads, calls |-> the set   *)
(*    of functions entered]                                                *)
(* where outcome is [kind |-> "ok", val |-> value] or                      *)
(* [kind |-> "raise", exc |-> exception class, err |-> category, ...].     *)
(***************************************************************************)
EXTENDS Integers, Sequences, FiniteSets, TLC

\* file: what yaml.safe_load yields for the bundled sequencer_types.yml
\* call: the last call made on the module, with its arguments and return
\* registry: the module-level table _INSTRUMENT_LOOKUP
\* catalog: the frozen snapshot that concurrent callers share (None while
\*          there is none)
\* threads: for each concurrent caller, the call it has invoked and, once
\*          the call has run, its outcome
VARIABLES file, call, registry, catalog, threads

vars == <<file, call, registry, catalog, threads>>

(* ---------------------------- bounds ---------------------------------- *)

\* longest instrument id enumerated by the prefix-extraction specification
MaxIdLen == 3

\* deepest nesting of the structures handed to _deep_freeze
MaxDepth == 2

\* most entries in a generated catalog file
MaxEntries == 2

(* ------------------------- module constants --------------------------- *)

_MACHINE_PREFIX_KEY == "machine_prefix"
_MODEL_TYPE_KEY == "model"
_MODEL_NAME_KEY == "model_name"
_RUN_CENTER_KEY == "run_center"
_REVCOMP_I5_KEY == "revcomp_samplesheet_i5_index"
DELETE_SETTINGS_KEY == "delete_settings"
_LAB_RUN_CENTER == "UCSDMI"

(* ------------------------- value constructors ------------------------- *)

PStr(s) == [kind |-> "str", val |-> s]
PBool(b) == [kind |-> "bool", val |-> b]
PNone == [kind |-> "none", val |-> "None"]
PDict(items) == [kind |-> "dict", val |-> items]
PProxy(items) == [kind |-> "proxy", val |-> items]
PList(elems) == [kind |-> "list", val |-> elems]
PTuple(elems) == [kind |-> "tuple", val |-> elems]
Item(key, value) == [k |-> key, v |-> value]

IsMapping(obj) == obj.kind \in {"dict", "proxy"}
IsProxy(obj) == obj.kind = "proxy"

\* the keys of a mapping, in iteration order, and as a set
KeySeq(m) == [i \in 1..Len(m.val) |-> m.val[i].k]
Keys(m) == {m.val[i].k : i \in 1..Len(m.val)}

\* m[key] for a key the mapping holds
Get(m, key) == m.val[CHOOSE i \in 1..Len(m.val) : m.val[i].k = key].v

\* m.get(key, default)
GetDefault(m, key, default) == IF key \in Keys(m) THEN Get(m, key) ELSE default

\* Python ==  on the modelled values: mappings compare by content whatever
\* their order and whether proxied or not, sequences element by element
\* within one type, scalars by type and value
RECURSIVE PyEq(_, _)
PyEq(a, b) ==
    IF IsMapping(a) /\ IsMapping(b)
    THEN /\ Keys(a) = Keys(b)
         /\ \A key \in Keys(a) : PyEq(Get(a, key), Get(b, key))
    ELSE IF a.kind \in {"list", "tuple"} /\ a.kind = b.kind
    THEN /\ Len(a.val) = Len(b.val)
         /\ \A i \in 1..Len(a.val) : PyEq(a.val[i], b.val[i])
    ELSE a.kind = b.kind /\ a.val = b.val

(* ----------------------------- outcomes ------------------------------- *)

Ok(value) == [kind |-> "ok", val |-> value]
IsOk(res) == res.kind = "ok"
IsRaise(res) == res.kind = "raise"

ErrInvalidArgument ==
    [kind |-> "raise", exc |-> "ValueError", err |-> "InvalidArgument"]
ErrMalformedInput(instrument_model) ==
    [kind |-> "raise", exc |-> "ValueError", err |-> "MalformedInput",
     model |-> instrument_model]
ErrUnrecognized(prefix) ==
    [kind |-> "raise", exc |-> "ValueError", err |-> "Unrecognized",
     prefix |-> prefix]
\* the message that names only the first matching type
ErrAmbiguous_first_name(count, prefix, names) ==
    [kind |-> "raise", exc |-> "ValueError", err |-> "Ambiguous",
     count |-> count, prefix |-> prefix, names |-> <<names[1]>>]

ErrAmbiguous(count, prefix, names) ==
    [kind |-> "raise", exc |-> "ValueError", err |-> "Ambiguous",
     count |-> count, prefix |-> prefix, names |-> names]
ErrSchemaViolation(name) ==
    [kind |-> "raise", exc |-> "ValueError", err |-> "SchemaViolation",
     name |-> name]
ErrNotFound(name) ==
    [kind |-> "raise", exc |-> "ValueError", err |-> "NotFound",
     name |-> name]
ErrMissingKey(name, key) ==
    [kind |-> "raise", exc |-> "ValueError", err |-> "MissingKey",
     name |-> name, key |-> key]
\* exceptions the module does not raise itself: a subscript of a mapping
\* with an absent key, and a subscript of a str with a str
ErrKeyError(key) ==
    [kind |-> "raise", exc |-> "KeyError", err |-> "KeyError", key |-> key]
ErrTypeError ==
    [kind |-> "raise", exc |-> "TypeError", err |-> "TypeError"]

\* what a function hands back: its outcome, the file reads it made and the
\* functions entered on the way
Ret(res, reads, calls) == [res |-> res, reads |-> reads, calls |-> calls]

(* ------------------------------ strings ------------------------------- *)

Digits == {"0", "1", "2", "3", "4", "5", "6", "7", "8", "9"}

\* the str of a sequence of characters
RECURSIVE Str(_)
Str(chars) == IF chars = <<>> THEN "" ELSE Head(chars) \o Str(Tail(chars))

(* --------------------------- _deep_freeze ----------------------------- *)

RECURSIVE _deep_freeze(_)
_deep_freeze(obj) ==
    IF obj.kind = "dict"
    THEN PProxy([i \in 1..Len(obj.val) |->
                    Item(obj.val[i].k, _deep_freeze(obj.val[i].v))])
    ELSE IF obj.kind = "list"
    THEN PTuple([i \in 1..Len(obj.val) |-> _deep_freeze(obj.val[i])])
    ELSE IF obj.kind = "set"
    THEN [kind |-> "frozenset", val |-> {_deep_freeze(v) : v \in obj.val}]
    ELSE IF obj.kind = "tuple"
    THEN PTuple([i \in 1..Len(obj.val) |-> _deep_freeze(obj.val[i])])
    ELSE obj

(* ------------------------ the legacy registry ------------------------- *)

LookupRow(model, run_center) == [model |-> model, run_center |-> run_center]

\* the table keyed by instrument id; DOMAIN is its index
_INSTRUMENT_LOOKUP ==
    [key \in {"FS10001773", "A00953", "A00169", "M05314", "K00180",
              "D00611", "LH00444", "SH00252", "MN01225"} |->
        CASE key = "FS10001773" -> LookupRow("iSeq", "KLM")
          [] key = "A00953" -> LookupRow("NovaSeq6000", "IGM")
          [] key = "A00169" -> LookupRow("NovaSeq6000", "LJI")
          [] key = "M05314" -> LookupRow("MiSeq", "KLM")
          [] key = "K00180" -> LookupRow("HiSeq4000", "IGM")
          [] key = "D00611" -> LookupRow("HiSeq2500", "IGM")
          [] key = "LH00444" -> LookupRow("NovaSeqX", "IGM")
          [] key = "SH00252" -> LookupRow("MiSeqi100", "IGM")
          [] key = "MN01225" -> LookupRow("MiniSeq", "CMI")]

(* ------------------------ catalog storage ----------------------------- *)

\* the file a test passes as test_only_fp
TestFile ==
    PDict(<<Item("HiSeq1500",
                 PDict(<<Item(_MACHINE_PREFIX_KEY, PStr("C")),
                         Item(_MODEL_NAME_KEY, PStr("Illumina HiSeq 1500")),
                         Item(_REVCOMP_I5_KEY, PBool(FALSE))>>))>>)

\* yaml.safe_load of the bundled file, or of the test file
ReadFile(test_only_fp) == IF test_only_fp = "None" THEN file ELSE TestFile

(* ----------------------- _load_sequencer_types ------------------------ *)

\* the loader that freezes whatever it is handed
_load_sequencer_types_no_type_test(existing_types, test_only_fp) ==
    IF existing_types # PNone
    THEN Ret(Ok(_deep_freeze(existing_types)), 0, {"_load_sequencer_types"})
    ELSE Ret(Ok(_deep_freeze(ReadFile(test_only_fp))), 1,
             {"_load_sequencer_types", "open"})

_load_sequencer_types(existing_types, test_only_fp) ==
    IF existing_types # PNone
    THEN IF ~IsProxy(existing_types)
         THEN Ret(ErrInvalidArgument, 0, {"_load_sequencer_types"})
         ELSE Ret(Ok(_deep_freeze(existing_types)), 0,
                  {"_load_sequencer_types"})
    ELSE Ret(Ok(_deep_freeze(ReadFile(test_only_fp))), 1,
             {"_load_sequencer_types", "open"})

(* -------------------------- _get_machine_code ------------------------- *)

\* re.match(r"^(.*?)\d.*", s): the lazy group takes k characters, k = 0, 1,
\* ..., each of them one that "." accepts (anything but a line break), until
\* the next character is a digit; -1 when there is no match.  The trailing
\* ".*" accepts the empty string, so it never decides the match.
RECURSIVE LazyMatch(_, _)
LazyMatch(s, k) ==
    IF k >= Len(s) THEN -1
    ELSE IF s[k + 1] \in Digits THEN k
    ELSE IF s[k + 1] = "\n" THEN -1
    ELSE LazyMatch(s, k + 1)

\* the extraction without the test for an empty machine code
_get_machine_code_no_empty_test(instrument_model) ==
    LET matches == LazyMatch(instrument_model, 0)
        machine_code == SubSeq(instrument_model, 1, matches)
    IN  IF matches # -1
        THEN Ret(Ok(PStr(Str(machine_code))), 0, {"_get_machine_code"})
        ELSE Ret(ErrMalformedInput(Str(instrument_model)), 0,
                 {"_get_machine_code"})

_get_machine_code(instrument_model) ==
    LET matches == LazyMatch(instrument_model, 0)
        machine_code == SubSeq(instrument_model, 1, matches)
    IN  IF matches # -1 /\ machine_code # <<>>
        THEN Ret(Ok(PStr(Str(machine_code))), 0, {"_get_machine_code"})
        ELSE Ret(ErrMalformedInput(Str(instrument_model)), 0,
                 {"_get_machine_code"})

(* --------------------- get_sequencers_w_key_value --------------------- *)

\* the loop that passes over an entry that is no MappingProxyType
RECURSIVE FindLoop_skip_malformed(_, _, _, _, _, _)
FindLoop_skip_malformed(sequencer_types, i, key, value, default, found_sequencers) ==
    IF i > Len(sequencer_types.val)
    THEN Ok(_deep_freeze(PDict(found_sequencers)))
    ELSE LET name == sequencer_types.val[i].k
             details == sequencer_types.val[i].v
         IN  FindLoop_skip_malformed(
                 sequencer_types, i + 1, key, value, default,
                 IF /\ IsProxy(details)
                    /\ PyEq(GetDefault(details, key, default), value)
                 THEN Append(found_sequencers, Item(name, details))
                 ELSE found_sequencers)

\* the loop that looks a key up without the caller's default
RECURSIVE FindLoop_no_default(_, _, _, _, _, _)
FindLoop_no_default(sequencer_types, i, key, value, default, found_sequencers) ==
    IF i > Len(sequencer_types.val)
    THEN Ok(_deep_freeze(PDict(found_sequencers)))
    ELSE LET name == sequencer_types.val[i].k
             details == sequencer_types.val[i].v
         IN  IF ~IsProxy(details)
             THEN ErrSchemaViolation(name)
             ELSE FindLoop_no_default(
                      sequencer_types, i + 1, key, value, default,
                      IF PyEq(GetDefault(details, key, PNone), value)
                      THEN Append(found_sequencers, Item(name, details))
                      ELSE found_sequencers)

\* the loop over sequencer_types.items(), from item i on, with the matches
\* found so far
RECURSIVE FindLoop(_, _, _, _, _, _)
FindLoop(sequencer_types, i, key, value, default, found_sequencers) ==
    IF i > Len(sequencer_types.val)
    THEN Ok(_deep_freeze(PDict(found_sequencers)))
    ELSE LET name == sequencer_types.val[i].k
             details == sequencer_types.val[i].v
         IN  IF ~IsProxy(details)
             THEN ErrSchemaViolation(name)
             ELSE FindLoop(sequencer_types, i + 1, key, value, default,
                           IF PyEq(GetDefault(details, key, default), value)
                           THEN Append(found_sequencers, Item(name, details))
                           ELSE found_sequencers)

get_sequencers_w_key_value(key, value, default, existing_types) ==
    LET loaded == _load_sequencer_types(existing_types, "None")
        calls == {"get_sequencers_w_key_value"} \cup loaded.calls
    IN  IF IsRaise(loaded.res)
        THEN Ret(loaded.res, loaded.reads, calls)
        ELSE Ret(FindLoop(loaded.res.val, 1, key, value, default, <<>>),
                 loaded.reads, calls)

(* ------------------ _get_model_by_sequencer_type_name ----------------- *)

\* obj[key] of Python: a mapping raises KeyError for an absent key, a str
\* raises TypeError for a str subscript
Subscript(obj, key) ==
    IF IsMapping(obj)
    THEN IF key \in Keys(obj) THEN Ok(Get(obj, key)) ELSE ErrKeyError(key)
    ELSE ErrTypeError

_get_model_by_sequencer_type_name(inst_model_type, sequencer_types) ==
    LET inst_sequencer_type == Subscript(sequencer_types, inst_model_type)
        calls == {"_get_model_by_sequencer_type_name"}
    IN  IF IsRaise(inst_sequencer_type)
        THEN Ret(inst_sequencer_type, 0, calls)
        ELSE Ret(Subscript(inst_sequencer_type.val, _MODEL_NAME_KEY), 0, calls)

(* --------------------- _get_model_by_machine_prefix ------------------- *)

\* the lookup that takes the first of several matches
_get_model_by_machine_prefix_first_match(instrument_prefix, sequencer_types) ==
    LET found == get_sequencers_w_key_value(
                     _MACHINE_PREFIX_KEY, instrument_prefix, PNone,
                     sequencer_types)
        calls == {"_get_model_by_machine_prefix"} \cup found.calls
        models_w_prefix == found.res.val
    IN  IF IsRaise(found.res)
        THEN Ret(found.res, found.reads, calls)
        ELSE IF Len(models_w_prefix.val) = 0
        THEN Ret(ErrUnrecognized(instrument_prefix.val), found.reads, calls)
        ELSE LET inst_model_type == models_w_prefix.val[1].k
                 named == _get_model_by_sequencer_type_name(
                              inst_model_type, models_w_prefix)
             IN  Ret(named.res, found.reads + named.reads,
                     calls \cup named.calls)

_get_model_by_machine_prefix(instrument_prefix, sequencer_types) ==
    LET found == get_sequencers_w_key_value(
                     _MACHINE_PREFIX_KEY, instrument_prefix, PNone,
                     sequencer_types)
        calls == {"_get_model_by_machine_prefix"} \cup found.calls
        models_w_prefix == found.res.val
    IN  IF IsRaise(found.res)
        THEN Ret(found.res, found.reads, calls)
        ELSE IF Len(models_w_prefix.val) = 0
        THEN Ret(ErrUnrecognized(instrument_prefix.val), found.reads, calls)
        ELSE IF Len(models_w_prefix.val) > 1
        THEN Ret(ErrAmbiguous(Len(models_w_prefix.val),
                              instrument_prefix.val, KeySeq(models_w_prefix)),
                 found.reads, calls)
        ELSE LET inst_model_type == models_w_prefix.val[1].k
                 named == _get_model_by_sequencer_type_name(
                              inst_model_type, models_w_prefix)
             IN  Ret(named.res, found.reads + named.reads,
                     calls \cup named.calls)

(* ---------------------- get_model_by_instrument_id -------------------- *)

get_model_by_instrument_id(instrument_id, sequencer_types) ==
    LET loaded == _load_sequencer_types(sequencer_types, "None")
        code == _get_machine_code(instrument_id)
        model == _get_model_by_machine_prefix(code.res.val, loaded.res.val)
        calls == {"get_model_by_instrument_id"} \cup loaded.calls
    IN  IF IsRaise(loaded.res)
        THEN Ret(loaded.res, loaded.reads, calls)
        ELSE IF IsRaise(code.res)
        THEN Ret(code.res, loaded.reads, calls \cup code.calls)
        ELSE Ret(model.res, loaded.reads + model.reads,
                 calls \cup code.calls \cup model.calls)

(* -------------------------- get_model_and_center ---------------------- *)

\* instrument_code.split('_')[0]: the characters before the first underscore
RECURSIVE SplitFirst(_)
SplitFirst(chars) ==
    IF chars = <<>> \/ Head(chars) = "_" THEN <<>>
    ELSE <<Head(chars)>> \o SplitFirst(Tail(chars))

\* the resolution that looks the whole run identifier up in the registry
get_model_and_center_no_split(instrument_code) ==
    LET available_sequencer_types == _load_sequencer_types(PNone, "None")
        instrument_id == SplitFirst(instrument_code)
        calls == {"get_model_and_center"} \cup available_sequencer_types.calls
        reads == available_sequencer_types.reads
        Pair(model, run_center) ==
            IF IsRaise(model.res)
            THEN Ret(model.res, reads + model.reads, calls \cup model.calls)
            ELSE Ret(Ok(PTuple(<<model.res.val, PStr(run_center)>>)),
                     reads + model.reads, calls \cup model.calls)
    IN  IF IsRaise(available_sequencer_types.res)
        THEN Ret(available_sequencer_types.res, reads, calls)
        ELSE IF Str(instrument_code) \in DOMAIN registry
        THEN Pair(_get_model_by_sequencer_type_name(
                      registry[Str(instrument_code)].model,
                      available_sequencer_types.res.val),
                  registry[Str(instrument_code)].run_center)
        ELSE Pair(get_model_by_instrument_id(
                      instrument_id, available_sequencer_types.res.val),
                  _LAB_RUN_CENTER)

\* the resolution that answers an unrecognized prefix with no model and the
\* lab's run center
get_model_and_center_silent_default(instrument_code) ==
    LET available_sequencer_types == _load_sequencer_types(PNone, "None")
        instrument_id == SplitFirst(instrument_code)
        calls == {"get_model_and_center"} \cup available_sequencer_types.calls
        reads == available_sequencer_types.reads
        Pair(model, run_center) ==
            IF IsRaise(model.res)
            THEN Ret(Ok(PTuple(<<PNone, PStr(run_center)>>)),
                     reads + model.reads, calls \cup model.calls)
            ELSE Ret(Ok(PTuple(<<model.res.val, PStr(run_center)>>)),
                     reads + model.reads, calls \cup model.calls)
    IN  IF IsRaise(available_sequencer_types.res)
        THEN Ret(available_sequencer_types.res, reads, calls)
        ELSE IF Str(instrument_id) \in DOMAIN registry
        THEN Pair(_get_model_by_sequencer_type_name(
                      registry[Str(instrument_id)].model,
                      available_sequencer_types.res.val),
                  registry[Str(instrument_id)].run_center)
        ELSE Pair(get_model_by_instrument_id(
                      instrument_id, available_sequencer_types.res.val),
                  _LAB_RUN_CENTER)

get_model_and_center(instrument_code) ==
    LET available_sequencer_types == _load_sequencer_types(PNone, "None")
        instrument_id == SplitFirst(instrument_code)
        calls == {"get_model_and_center"} \cup available_sequencer_types.calls
        reads == available_sequencer_types.reads
        Pair(model, run_center) ==
            IF IsRaise(model.res)
            THEN Ret(model.res, reads + model.reads, calls \cup model.calls)
            ELSE Ret(Ok(PTuple(<<model.res.val, PStr(run_center)>>)),
                     reads + model.reads, calls \cup model.calls)
    IN  IF IsRaise(available_sequencer_types.res)
        THEN Ret(available_sequencer_types.res, reads, calls)
        ELSE IF Str(instrument_id) \in DOMAIN registry
        THEN Pair(_get_model_by_sequencer_type_name(
                      registry[Str(instrument_id)].model,
                      available_sequencer_types.res.val),
                  registry[Str(instrument_id)].run_center)
        ELSE Pair(get_model_by_instrument_id(
                      instrument_id, available_sequencer_types.res.val),
                  _LAB_RUN_CENTER)

(* --------------------------- get_sequencer_type ----------------------- *)

\* the lookup that answers an absent name with None
get_sequencer_type_no_raise(sequencer_type, existing_types) ==
    LET loaded == _load_sequencer_types(existing_types, "None")
        calls == {"get_sequencer_type"} \cup loaded.calls
    IN  IF IsRaise(loaded.res)
        THEN Ret(loaded.res, loaded.reads, calls)
        ELSE IF sequencer_type \in Keys(loaded.res.val)
        THEN Ret(Ok(_deep_freeze(Get(loaded.res.val, sequencer_type))),
                 loaded.reads, calls)
        ELSE Ret(Ok(PNone), loaded.reads, calls)

get_sequencer_type(sequencer_type, existing_types) ==
    LET loaded == _load_sequencer_types(existing_types, "None")
        calls == {"get_sequencer_type"} \cup loaded.calls
    IN  IF IsRaise(loaded.res)
        THEN Ret(loaded.res, loaded.reads, calls)
        ELSE IF sequencer_type \in Keys(loaded.res.val)
        THEN Ret(Ok(_deep_freeze(Get(loaded.res.val, sequencer_type))),
                 loaded.reads, calls)
        ELSE Ret(ErrNotFound(sequencer_type), loaded.reads, calls)

(* ------------------------ get_i5_index_sequencers --------------------- *)

\* result | curr_mapping_proxy: the keys of the left operand keep their
\* place and take the right operand's value, new keys are appended
MergeItems(left, right) ==
    LET kept == [i \in 1..Len(left) |->
                    IF left[i].k \in {right[j].k : j \in 1..Len(right)}
                    THEN Item(left[i].k,
                              right[CHOOSE j \in 1..Len(right) :
                                        right[j].k = left[i].k].v)
                    ELSE left[i]]
        IsNew(item) == item.k \notin {left[i].k : i \in 1..Len(left)}
    IN  kept \o SelectSeq(right, IsNew)

\* the query that hands its own argument, not the snapshot it loaded, to the
\* nested finds
get_i5_index_sequencers_passes_argument(existing_types) ==
    LET available_sequencer_types == _load_sequencer_types(existing_types,
                                                           "None")
        calls == {"get_i5_index_sequencers"}
                     \cup available_sequencer_types.calls
        reads == available_sequencer_types.reads
        with_true == get_sequencers_w_key_value(
                         _REVCOMP_I5_KEY, PBool(TRUE), PNone,
                         existing_types)
        with_false == get_sequencers_w_key_value(
                          _REVCOMP_I5_KEY, PBool(FALSE), PNone,
                          existing_types)
    IN  IF IsRaise(available_sequencer_types.res)
        THEN Ret(available_sequencer_types.res, reads, calls)
        ELSE IF IsRaise(with_true.res)
        THEN Ret(with_true.res, reads + with_true.reads,
                 calls \cup with_true.calls)
        ELSE IF IsRaise(with_false.res)
        THEN Ret(with_false.res, reads + with_true.reads + with_false.reads,
                 calls \cup with_true.calls \cup with_false.calls)
        ELSE Ret(Ok(PProxy(MergeItems(
                        MergeItems(<<>>, with_true.res.val.val),
                        with_false.res.val.val))),
                 reads + with_true.reads + with_false.reads,
                 calls \cup with_true.calls \cup with_false.calls)

\* the query whose loop overwrites the result instead of merging into it
get_i5_index_sequencers_overwrite(existing_types) ==
    LET available_sequencer_types == _load_sequencer_types(existing_types,
                                                           "None")
        calls == {"get_i5_index_sequencers"}
                     \cup available_sequencer_types.calls
        reads == available_sequencer_types.reads
        with_true == get_sequencers_w_key_value(
                         _REVCOMP_I5_KEY, PBool(TRUE), PNone,
                         available_sequencer_types.res.val)
        with_false == get_sequencers_w_key_value(
                          _REVCOMP_I5_KEY, PBool(FALSE), PNone,
                          available_sequencer_types.res.val)
    IN  IF IsRaise(available_sequencer_types.res)
        THEN Ret(available_sequencer_types.res, reads, calls)
        ELSE IF IsRaise(with_true.res)
        THEN Ret(with_true.res, reads + with_true.reads,
                 calls \cup with_true.calls)
        ELSE IF IsRaise(with_false.res)
        THEN Ret(with_false.res, reads + with_true.reads + with_false.reads,
                 calls \cup with_true.calls \cup with_false.calls)
        ELSE Ret(Ok(PProxy(with_false.res.val.val)),
                 reads + with_true.reads + with_false.reads,
                 calls \cup with_true.calls \cup with_false.calls)

get_i5_index_sequencers(existing_types) ==
    LET available_sequencer_types == _load_sequencer_types(existing_types,
                                                           "None")
        calls == {"get_i5_index_sequencers"}
                     \cup available_sequencer_types.calls
        reads == available_sequencer_types.reads
        with_true == get_sequencers_w_key_value(
                         _REVCOMP_I5_KEY, PBool(TRUE), PNone,
                         available_sequencer_types.res.val)
        with_false == get_sequencers_w_key_value(
                          _REVCOMP_I5_KEY, PBool(FALSE), PNone,
                          available_sequencer_types.res.val)
    IN  IF IsRaise(available_sequencer_types.res)
        THEN Ret(available_sequencer_types.res, reads, calls)
        ELSE IF IsRaise(with_true.res)
        THEN Ret(with_true.res, reads + with_true.reads,
                 calls \cup with_true.calls)
        ELSE IF IsRaise(with_false.res)
        THEN Ret(with_false.res, reads + with_true.reads + with_false.reads,
                 calls \cup with_true.calls \cup with_false.calls)
        ELSE Ret(Ok(PProxy(MergeItems(
                        MergeItems(<<>>, with_true.res.val.val),
                        with_false.res.val.val))),
                 reads + with_true.reads + with_false.reads,
                 calls \cup with_true.calls \cup with_false.calls)

(* ------------------------ is_i5_revcomp_sequencer --------------------- *)

\* key in obj: membership of a mapping's keys; for a str, a substring test,
\* and no str of the model contains the text of a catalog key
Contains(obj, key) == IF IsMapping(obj) THEN key \in Keys(obj) ELSE FALSE

\* the check that takes an absent key for False
is_i5_revcomp_sequencer_default_false(sequencer_type, existing_types) ==
    LET sequencer_info == get_sequencer_type(sequencer_type, existing_types)
        calls == {"is_i5_revcomp_sequencer"} \cup sequencer_info.calls
    IN  IF IsRaise(sequencer_info.res)
        THEN Ret(sequencer_info.res, sequencer_info.reads, calls)
        ELSE IF Contains(sequencer_info.res.val, _REVCOMP_I5_KEY)
        THEN Ret(Ok(Get(sequencer_info.res.val, _REVCOMP_I5_KEY)),
                 sequencer_info.reads, calls)
        ELSE Ret(Ok(PBool(FALSE)), sequencer_info.reads, calls)

is_i5_revcomp_sequencer(sequencer_type, existing_types) ==
    LET sequencer_info == get_sequencer_type(sequencer_type, existing_types)
        calls == {"is_i5_revcomp_sequencer"} \cup sequencer_info.calls
    IN  IF IsRaise(sequencer_info.res)
        THEN Ret(sequencer_info.res, sequencer_info.reads, calls)
        ELSE IF Contains(sequencer_info.res.val, _REVCOMP_I5_KEY)
        THEN Ret(Ok(Get(sequencer_info.res.val, _REVCOMP_I5_KEY)),
                 sequencer_info.reads, calls)
        ELSE Ret(ErrMissingKey(sequencer_type, _REVCOMP_I5_KEY),
                 sequencer_info.reads, calls)

(* ------------------------------ inputs -------------------------------- *)

\* the records a catalog file offers under a type name: complete ones, two
\* sharing a prefix, one with a list-valued extra key, one without a model
\* name and with a null revcomp value, and one that is no record at all
RawEntries ==
    {PDict(<<Item(_MACHINE_PREFIX_KEY, PStr("A")),
             Item(_MODEL_NAME_KEY, PStr("Illumina NovaSeq 6000")),
             Item(_REVCOMP_I5_KEY, PBool(TRUE))>>),
     PDict(<<Item(_MACHINE_PREFIX_KEY, PStr("LH")),
             Item(_MODEL_NAME_KEY, PStr("Illumina NovaSeq X")),
             Item(_REVCOMP_I5_KEY, PBool(FALSE))>>),
     PDict(<<Item(_MACHINE_PREFIX_KEY, PStr("LH")),
             Item(_MODEL_NAME_KEY, PStr("Illumina NovaSeq X Plus"))>>),
     PDict(<<Item(_MACHINE_PREFIX_KEY, PStr("MN")),
             Item(_MODEL_NAME_KEY, PStr("Illumina MiniSeq")),
             Item(_REVCOMP_I5_KEY, PBool(FALSE)),
             Item(DELETE_SETTINGS_KEY,
                  PList(<<PStr("MaskShortReads"), PStr("OverrideCycles")>>))>>),
     PDict(<<Item(_MACHINE_PREFIX_KEY, PStr("A")),
             Item(_REVCOMP_I5_KEY, PNone)>>),
     PStr("red")}

TypeNames == {"NovaSeq6000", "NovaSeqX", "MiniSeq"}

\* the sequences of n items with distinct type names
RECURSIVE ItemSeqs(_)
ItemSeqs(n) ==
    IF n = 0 THEN {<<>>}
    ELSE {Append(items, Item(name, entry)) :
              items \in ItemSeqs(n - 1), name \in TypeNames,
              entry \in RawEntries}

DistinctKeys(items) ==
    \A i, j \in 1..Len(items) : items[i].k = items[j].k => i = j

\* the catalog files: a mapping of up to MaxEntries type names
Files ==
    {PDict(items) : items \in
        {its \in UNION {ItemSeqs(n) : n \in 0..MaxEntries} :
            DistinctKeys(its)}}

\* catalogs a caller injects: a deep-frozen one with a shared prefix, a
\* MappingProxyType over plain dicts, and one with an entry that is no
\* mapping (the fixtures of test_sequencers.py, shortened)
SharedPrefixCatalog ==
    _deep_freeze(PDict(<<
        Item("MiniSeq",
             PDict(<<Item(_MACHINE_PREFIX_KEY, PStr("MN")),
                     Item(_MODEL_NAME_KEY, PStr("Illumina MiniSeq"))>>)),
        Item("NovaSeqX",
             PDict(<<Item(_MACHINE_PREFIX_KEY, PStr("LH")),
                     Item(_MODEL_NAME_KEY, PStr("Illumina NovaSeq X"))>>)),
        Item("NovaSeqXPlus",
             PDict(<<Item(_MACHINE_PREFIX_KEY, PStr("LH")),
                     Item(_MODEL_NAME_KEY,
                          PStr("Illumina NovaSeq X Plus"))>>))>>))

ShallowProxyCatalog ==
    PProxy(<<
        Item("MiniSeq",
             PDict(<<Item(_MACHINE_PREFIX_KEY, PStr("MN")),
                     Item(_MODEL_NAME_KEY, PStr("Illumina MiniSeq")),
                     Item(_REVCOMP_I5_KEY, PBool(FALSE))>>)),
        Item("NovaSeq6000",
             PDict(<<Item(_MACHINE_PREFIX_KEY, PStr("A")),
                     Item(_MODEL_NAME_KEY,
                          PStr("Illumina NovaSeq 6000"))>>))>>)

MalformedCatalog ==
    PProxy(<<
        Item("NovaSeq6000",
             _deep_freeze(
                 PDict(<<Item(_MACHINE_PREFIX_KEY, PStr("A")),
                         Item(_MODEL_NAME_KEY, PStr("Illumina NovaSeq 6000")),
                         Item(_REVCOMP_I5_KEY, PBool(TRUE))>>))),
        Item("HiSeq2500", PStr("red"))>>)

\* a catalog that was never frozen
PlainDictCatalog ==
    PDict(<<Item("MiniSeq",
                 PDict(<<Item(_MACHINE_PREFIX_KEY, PStr("MN")),
                         Item(_MODEL_NAME_KEY, PStr("Illumina MiniSeq"))>>))>>)

\* what a caller passes as existing_types / sequencer_types: nothing, the
\* snapshot of the bundled file loaded earlier, an injected catalog, or
\* something that is not a MappingProxyType
Existing ==
    {PNone, _deep_freeze(file), SharedPrefixCatalog, ShallowProxyCatalog,
     MalformedCatalog, PlainDictCatalog, PStr("red")}

InstrumentIds ==
    {
     <<"A", "8">>,
     <<"A", "0", "0", "9", "5", "3">>,
     <<"L", "H", "1">>,
     <<"L", "H", "0", "0", "4", "4", "4">>,
     <<"M", "N", "0">>,
     <<"M", "Q", "0">>,
     <<"M", "Q">>,
     <<"8", "A">>,
     <<>>,
     <<"L", "\n", "1">>}

RunIds ==
    {
     <<"F", "S", "1", "0", "0", "0", "1", "7", "7", "3">>,
     <<"A", "0", "0", "9", "5", "3">>,
     <<"A", "0", "0", "1", "6", "9">>,
     <<"M", "0", "5", "3", "1", "4">>,
     <<"K", "0", "0", "1", "8", "0">>,
     <<"D", "0", "0", "6", "1", "1">>,
     <<"L", "H", "0", "0", "4", "4", "4">>,
     <<"S", "H", "0", "0", "2", "5", "2">>,
     <<"M", "N", "0", "1", "2", "2", "5">>,
     <<"F", "S", "1", "0", "0", "0", "1", "7", "7", "3", "_", "0">>,
     <<"A", "0", "0", "9", "5", "3", "_", "0">>,
     <<"A", "0", "0", "1", "6", "9", "_", "0">>,
     <<"M", "0", "5", "3", "1", "4", "_", "0">>,
     <<"K", "0", "0", "1", "8", "0", "_", "0">>,
     <<"D", "0", "0", "6", "1", "1", "_", "0">>,
     <<"L", "H", "0", "0", "4", "4", "4", "_", "0">>,
     <<"S", "H", "0", "0", "2", "5", "2", "_", "0">>,
     <<"M", "N", "0", "1", "2", "2", "5", "_", "0">>,
     <<"A", "8", "_", "0">>,
     <<"L", "H", "1", "_", "0">>,
     <<"M", "N", "0">>,
     <<"M", "Q", "0", "_", "0">>,
     <<"M", "Q", "_", "0">>,
     <<"8", "_", "0">>,
     <<"_", "A", "0">>,
     <<"A", "_", "0">>,
     <<"A", "0", "0", "9", "5", "3", "X", "_", "0">>,
     <<"A", "0", "0", "9", "5", "_", "3">>}

QueryKeys == {_MACHINE_PREFIX_KEY, _REVCOMP_I5_KEY, "no_such_key"}

QueryValues == {PStr("LH"), PBool(TRUE), PBool(FALSE), PNone}

QueryDefaults == {PNone, PBool(FALSE)}

QueryNames == {"NovaSeq6000", "NovaSeqX", "MiniSeq", "HiSeq2500", "YourSeq"}

\* the characters of the ids the prefix-extraction specification enumerates
Alphabet == {"A", "N", "0", "7", "_", "\n"}

RECURSIVE CharSeqs(_)
CharSeqs(n) ==
    IF n = 0 THEN {<<>>}
    ELSE CharSeqs(n - 1) \cup
         {Append(chars, c) : chars \in CharSeqs(n - 1), c \in Alphabet}

(* --------------------------- the state machine ------------------------ *)

\* no call is outstanding
NoCall == [op |-> "none"]

Idle == call = NoCall

Init ==
    /\ file \in Files
    /\ call = NoCall
    /\ registry = _INSTRUMENT_LOOKUP
    /\ catalog = PNone
    /\ threads = <<>>

\* the caller takes the outcome of the call; the module is synchronous, one
\* call runs at a time
Return ==
    /\ ~Idle
    /\ call' = NoCall
    /\ UNCHANGED <<file, registry, catalog, threads>>

LoadSequencerTypes ==
    /\ Idle
    /\ \E existing_types \in Existing, test_only_fp \in {"None", "test"} :
          call' = [op |-> "_load_sequencer_types",
                   existing |-> existing_types,
                   test_only_fp |-> test_only_fp,
                   ret |-> _load_sequencer_types(existing_types,
                                                 test_only_fp)]
    /\ UNCHANGED <<file, registry, catalog, threads>>

GetMachineCode ==
    /\ Idle
    /\ \E instrument_model \in InstrumentIds :
          call' = [op |-> "_get_machine_code",
                   instrument_model |-> instrument_model,
                   ret |-> _get_machine_code(instrument_model)]
    /\ UNCHANGED <<file, registry, catalog, threads>>

GetModelByInstrumentId ==
    /\ Idle
    /\ \E instrument_id \in InstrumentIds, sequencer_types \in Existing :
          call' = [op |-> "get_model_by_instrument_id",
                   instrument_id |-> instrument_id,
                   existing |-> sequencer_types,
                   ret |-> get_model_by_instrument_id(instrument_id,
                                                      sequencer_types)]
    /\ UNCHANGED <<file, registry, catalog, threads>>

GetModelAndCenter ==
    /\ Idle
    /\ \E instrument_code \in RunIds :
          call' = [op |-> "get_model_and_center",
                   instrument_code |-> instrument_code,
                   ret |-> get_model_and_center(instrument_code)]
    /\ UNCHANGED <<file, registry, catalog, threads>>

GetSequencersWKeyValue ==
    /\ Idle
    /\ \E key \in QueryKeys, value \in QueryValues,
          default \in QueryDefaults, existing_types \in Existing :
          call' = [op |-> "get_sequencers_w_key_value",
                   key |-> key, value |-> value, default |-> default,
                   existing |-> existing_types,
                   ret |-> get_sequencers_w_key_value(key, value, default,
                                                      existing_types)]
    /\ UNCHANGED <<file, registry, catalog, threads>>

GetI5IndexSequencers ==
    /\ Idle
    /\ \E existing_types \in Existing :
          call' = [op |-> "get_i5_index_sequencers",
                   existing |-> existing_types,
                   ret |-> get_i5_index_sequencers(existing_types)]
    /\ UNCHANGED <<file, registry, catalog, threads>>

GetSequencerType ==
    /\ Idle
    /\ \E sequencer_type \in QueryNames, existing_types \in Existing :
          call' = [op |-> "get_sequencer_type",
                   sequencer_type |-> sequencer_type,
                   existing |-> existing_types,
                   ret |-> get_sequencer_type(sequencer_type,
                                              existing_types)]
    /\ UNCHANGED <<file, registry, catalog, threads>>

IsI5RevcompSequencer ==
    /\ Idle
    /\ \E sequencer_type \in QueryNames, existing_types \in Existing :
          call' = [op |-> "is_i5_revcomp_sequencer",
                   sequencer_type |-> sequencer_type,
                   existing |-> existing_types,
                   ret |-> is_i5_revcomp_sequencer(sequencer_type,
                                                   existing_types)]
    /\ UNCHANGED <<file, registry, catalog, threads>>

Next ==
    \/ LoadSequencerTypes
    \/ GetMachineCode
    \/ GetModelByInstrumentId
    \/ GetModelAndCenter
    \/ GetSequencersWKeyValue
    \/ GetI5IndexSequencers
    \/ GetSequencerType
    \/ IsI5RevcompSequencer
    \/ Return

Spec == Init /\ [][Next]_vars

\* prefix extraction on its own: every id of up to MaxIdLen characters
InitCode ==
    /\ file = PDict(<<>>)
    /\ call = NoCall
    /\ registry = _INSTRUMENT_LOOKUP
    /\ catalog = PNone
    /\ threads = <<>>

ExtractCode ==
    /\ Idle
    /\ \E instrument_model \in CharSeqs(MaxIdLen) :
          call' = [op |-> "_get_machine_code",
                   instrument_model |-> instrument_model,
                   ret |-> _get_machine_code(instrument_model)]
    /\ UNCHANGED <<file, registry, catalog, threads>>

NextCode ==
    \/ ExtractCode
    \/ Return

SpecCode == InitCode /\ [][NextCode]_vars

(* ---------------------- what the claims speak of ----------------------- *)

\* the position of the first digit of an id, 0 when it has none
FirstDigit(chars) ==
    IF \E i \in 1..Len(chars) : chars[i] \in Digits
    THEN CHOOSE i \in 1..Len(chars) :
             /\ chars[i] \in Digits
             /\ \A j \in 1..(i - 1) : chars[j] \notin Digits
    ELSE 0

\* the run of characters before the first digit
LeadingRun(chars) == SubSeq(chars, 1, FirstDigit(chars) - 1)

HasLineBreak(chars) == \E i \in 1..Len(chars) : chars[i] = "\n"

\* the segment of a run identifier before its first underscore
FirstSegment(chars) ==
    IF \E i \in 1..Len(chars) : chars[i] = "_"
    THEN SubSeq(chars, 1,
                (CHOOSE i \in 1..Len(chars) :
                     /\ chars[i] = "_"
                     /\ \A j \in 1..(i - 1) : chars[j] # "_") - 1)
    ELSE chars

\* the catalog a call works on: the injected one, else the snapshot of the
\* bundled file
CatalogInUse(existing) ==
    IF existing = PNone THEN _deep_freeze(file) ELSE existing

\* every entry of the catalog is an immutable mapping
AllEntriesFrozen(cat) ==
    /\ IsProxy(cat)
    /\ \A name \in Keys(cat) : IsProxy(Get(cat, name))

\* the catalog of the data model: every entry is an immutable mapping that
\* holds a model name
WellFormed(cat) ==
    /\ AllEntriesFrozen(cat)
    /\ \A name \in Keys(cat) : _MODEL_NAME_KEY \in Keys(Get(cat, name))

\* the type names whose entry carries the machine prefix
PrefixMatches(cat, prefix) ==
    {name \in Keys(cat) :
        /\ IsMapping(Get(cat, name))
        /\ _MACHINE_PREFIX_KEY \in Keys(Get(cat, name))
        /\ Get(Get(cat, name), _MACHINE_PREFIX_KEY) = PStr(prefix)}

SeqRange(sq) == {sq[i] : i \in 1..Len(sq)}

(* -------------------------------- C1 ---------------------------------- *)

ExpectedModel(cat, prefix) ==
    LET matching == PrefixMatches(cat, prefix)
    IN  IF Cardinality(matching) = 1
        THEN Ok(Get(Get(cat, CHOOSE name \in matching : TRUE),
                    _MODEL_NAME_KEY))
        ELSE IF matching = {} THEN ErrUnrecognized(prefix)
        ELSE [kind |-> "raise", exc |-> "ValueError", err |-> "Ambiguous"]

\* C2: on a catalog of the data model, an id with an extractable prefix
\* resolves to a model name exactly when one entry has that machine prefix,
\* and to that entry's model name; no match fails as Unrecognized, two or
\* more as Ambiguous.  The outcome depends on the id through its prefix only.
C2_ResolveModel ==
    (/\ call.op = "get_model_by_instrument_id"
     /\ WellFormed(CatalogInUse(call.existing))
     /\ FirstDigit(call.instrument_id) > 1
     /\ ~HasLineBreak(LeadingRun(call.instrument_id)))
    => LET cat == CatalogInUse(call.existing)
           prefix == Str(LeadingRun(call.instrument_id))
           expected == ExpectedModel(cat, prefix)
           res == call.ret.res
       IN  /\ IsOk(res) <=> Cardinality(PrefixMatches(cat, prefix)) = 1
           /\ IsOk(res) => res = expected
           /\ IsRaise(res) => /\ res.exc = "ValueError"
                              /\ res.err = expected.err

\* a model was resolved from a catalog that also holds another prefix
C2_Witness ==
    /\ call.op = "get_model_by_instrument_id"
    /\ IsOk(call.ret.res)
    /\ WellFormed(CatalogInUse(call.existing))
    /\ Cardinality(Keys(CatalogInUse(call.existing))) >= 2
    /\ call.ret.res.val = PStr("Illumina NovaSeq X")

(* -------------------------------- C3 ---------------------------------- *)

\* C3: when the prefix of the id matches more than one entry, the Ambiguous
\* error carries the number of matching entries, the prefix, and the names
\* of exactly the matching entries, each once.
C3_AmbiguousNamesAll ==
    (/\ call.op = "get_model_by_instrument_id"
     /\ AllEntriesFrozen(CatalogInUse(call.existing))
     /\ FirstDigit(call.instrument_id) > 1
     /\ ~HasLineBreak(LeadingRun(call.instrument_id))
     /\ Cardinality(PrefixMatches(CatalogInUse(call.existing),
                                  Str(LeadingRun(call.instrument_id)))) > 1)
    => LET matching == PrefixMatches(CatalogInUse(call.existing),
                                     Str(LeadingRun(call.instrument_id)))
           res == call.ret.res
       IN  /\ IsRaise(res)
           /\ res.err = "Ambiguous"
           /\ res.count = Cardinality(matching)
           /\ res.prefix = Str(LeadingRun(call.instrument_id))
           /\ SeqRange(res.names) = matching
           /\ Len(res.names) = Cardinality(matching)

\* two of three entries share the prefix and both are named
C3_Witness ==
    /\ call.op = "get_model_by_instrument_id"
    /\ call.existing = SharedPrefixCatalog
    /\ IsRaise(call.ret.res)
    /\ call.ret.res.err = "Ambiguous"
    /\ SeqRange(call.ret.res.names) = {"NovaSeqX", "NovaSeqXPlus"}

(* -------------------------------- C4 ---------------------------------- *)

PrefixFunctions ==
    {"_get_machine_code", "_get_model_by_machine_prefix",
     "get_model_by_instrument_id", "get_sequencers_w_key_value"}

\* C4: for a run identifier whose first segment is a key of the legacy
\* registry, the result is the model name of the catalog entry named by the
\* registry's model tag together with the registry's run center, and neither
\* prefix extraction nor prefix matching is entered.
C4_LegacyFirst ==
    (/\ call.op = "get_model_and_center"
     /\ Str(FirstSegment(call.instrument_code)) \in DOMAIN _INSTRUMENT_LOOKUP)
    => LET row == _INSTRUMENT_LOOKUP[Str(FirstSegment(call.instrument_code))]
           cat == _deep_freeze(file)
           res == call.ret.res
       IN  /\ call.ret.calls \cap PrefixFunctions = {}
           /\ (/\ row.model \in Keys(cat)
               /\ IsMapping(Get(cat, row.model))
               /\ _MODEL_NAME_KEY \in Keys(Get(cat, row.model)))
              => res = Ok(PTuple(<<Get(Get(cat, row.model), _MODEL_NAME_KEY),
                                   PStr(row.run_center)>>))
           /\ IsOk(res) => /\ row.model \in Keys(cat)
                           /\ res.val.val[2] = PStr(row.run_center)

\* a registered instrument resolved through the registry although its prefix
\* is shared by two catalog entries
C4_Witness ==
    /\ call.op = "get_model_and_center"
    /\ call.instrument_code = <<"L", "H", "0", "0", "4", "4", "4", "_", "0">>
    /\ IsOk(call.ret.res)
    /\ call.ret.res.val.val[2] = PStr("IGM")
    /\ Cardinality(PrefixMatches(_deep_freeze(file), "LH")) = 2

(* -------------------------------- C5 ---------------------------------- *)

\* what C5 expects on a well-formed catalog: the pair, or the error in full
\* for an absent prefix
ExpectedModelAndCenter(cat, instrument_id) ==
    LET expected == ExpectedModel(cat, Str(LeadingRun(instrument_id)))
        matching == PrefixMatches(cat, Str(LeadingRun(instrument_id)))
    IN  IF IsOk(expected)
        THEN Ok(PTuple(<<expected.val, PStr("UCSDMI")>>))
        ELSE IF matching = {} THEN expected
        ELSE ErrAmbiguous(Cardinality(matching), Str(LeadingRun(instrument_id)),
                          SelectSeq(KeySeq(cat),
                                    LAMBDA name : name \in matching))

\* C5: for a run identifier whose first segment is no key of the legacy
\* registry, the result is the model that get_model_by_instrument_id gives
\* for that segment on the bundled catalog, paired with UCSDMI, or else that
\* call's error; a prefix absent from a well-formed catalog fails as
\* Unrecognized, and a pair always holds the model name of an entry.
C5_FallbackToPrefix ==
    (/\ call.op = "get_model_and_center"
     /\ Str(FirstSegment(call.instrument_code))
            \notin DOMAIN _INSTRUMENT_LOOKUP)
    => LET instrument_id == FirstSegment(call.instrument_code)
           cat == _deep_freeze(file)
           resolved == get_model_by_instrument_id(instrument_id, PNone).res
           res == call.ret.res
       IN  /\ IsOk(resolved)
              => res = Ok(PTuple(<<resolved.val, PStr(_LAB_RUN_CENTER)>>))
           /\ IsRaise(resolved) => res = resolved
           /\ (/\ WellFormed(cat)
               /\ FirstDigit(instrument_id) > 1
               /\ ~HasLineBreak(LeadingRun(instrument_id)))
              => res = ExpectedModelAndCenter(cat, instrument_id)
           /\ IsOk(res)
              => \E name \in Keys(cat) :
                    /\ IsMapping(Get(cat, name))
                    /\ _MODEL_NAME_KEY \in Keys(Get(cat, name))
                    /\ res.val.val[1] = Get(Get(cat, name), _MODEL_NAME_KEY)

\* an unregistered instrument with a prefix the catalog does not hold
C5_Witness ==
    /\ call.op = "get_model_and_center"
    /\ call.instrument_code = <<"M", "Q", "0", "_", "0">>
    /\ file.val # <<>>
    /\ WellFormed(_deep_freeze(file))
    /\ call.ret.res = ErrUnrecognized("MQ")

(* -------------------------------- C6 ---------------------------------- *)

\* whether an entry answers the query: its value under the key, or the
\* default when it lacks the key, equals the value asked for
Answers(entry, key, value, default) ==
    IF key \in Keys(entry) THEN PyEq(Get(entry, key), value)
    ELSE PyEq(default, value)

\* C6: over a catalog whose entries are all immutable mappings,
\* get_sequencers_w_key_value returns, as a normal value, the immutable
\* mapping of exactly the entries that answer the query, each under its own
\* name with its content unchanged; with value = default every entry that
\* lacks the key is among them.
C6_FindByExactSubset ==
    (/\ call.op = "get_sequencers_w_key_value"
     /\ AllEntriesFrozen(CatalogInUse(call.existing)))
    => LET cat == CatalogInUse(call.existing)
           res == call.ret.res
       IN  /\ IsOk(res)
           /\ IsProxy(res.val)
           /\ Keys(res.val) =
                 {name \in Keys(cat) :
                     Answers(Get(cat, name), call.key, call.value,
                             call.default)}
           /\ Len(res.val.val) = Cardinality(Keys(res.val))
           /\ \A name \in Keys(res.val) :
                 Get(res.val, name) = Get(cat, name)
           /\ call.value = call.default
              => \A name \in Keys(cat) :
                    call.key \notin Keys(Get(cat, name))
                        => name \in Keys(res.val)

\* asked for False with default False: an entry without the key is returned
\* next to none that holds True
C6_Witness ==
    /\ call.op = "get_sequencers_w_key_value"
    /\ call.existing = PNone
    /\ call.key = _REVCOMP_I5_KEY
    /\ call.value = PBool(FALSE)
    /\ call.default = PBool(FALSE)
    /\ IsOk(call.ret.res)
    /\ Len(file.val) = 2
    /\ Len(call.ret.res.val.val) = 1
    /\ _REVCOMP_I5_KEY \notin Keys(call.ret.res.val.val[1].v)

(* -------------------------------- C7 ---------------------------------- *)

\* a value no caller can change: a scalar, or a proxy, tuple or frozenset
\* of such values
RECURSIVE IsImmutable(_)
IsImmutable(obj) ==
    IF obj.kind \in {"dict", "list", "set"} THEN FALSE
    ELSE IF obj.kind = "proxy"
    THEN \A i \in 1..Len(obj.val) : IsImmutable(obj.val[i].v)
    ELSE IF obj.kind = "tuple"
    THEN \A i \in 1..Len(obj.val) : IsImmutable(obj.val[i])
    ELSE IF obj.kind = "frozenset"
    THEN \A v \in obj.val : IsImmutable(v)
    ELSE TRUE

\* C7: get_sequencer_type fails as NotFound, naming the type, for every
\* name that is no key of the catalog; for a key whose entry is a mapping of
\* immutable values it returns an immutable mapping with exactly the entry's
\* keys and values.
C7_GetEntryExactName ==
    (/\ call.op = "get_sequencer_type"
     /\ IsProxy(CatalogInUse(call.existing)))
    => LET cat == CatalogInUse(call.existing)
           res == call.ret.res
       IN  IF call.sequencer_type \notin Keys(cat)
           THEN res = ErrNotFound(call.sequencer_type)
           ELSE LET entry == Get(cat, call.sequencer_type)
                IN  (/\ IsMapping(entry)
                     /\ \A key \in Keys(entry) : IsImmutable(Get(entry, key)))
                    => /\ IsOk(res)
                       /\ IsProxy(res.val)
                       /\ IsImmutable(res.val)
                       /\ res.val.val = entry.val

\* an entry was fetched by name from a catalog that holds another one too
C7_Witness ==
    /\ call.op = "get_sequencer_type"
    /\ call.existing = PNone
    /\ call.sequencer_type = "MiniSeq"
    /\ Len(file.val) = 2
    /\ IsOk(call.ret.res)
    /\ IsProxy(call.ret.res.val)
    /\ DELETE_SETTINGS_KEY \in Keys(call.ret.res.val)

(* -------------------------------- C8 ---------------------------------- *)

\* the entry holds True or False under the revcomp key
DefinesRevcomp(entry) ==
    /\ _REVCOMP_I5_KEY \in Keys(entry)
    /\ Get(entry, _REVCOMP_I5_KEY) \in {PBool(TRUE), PBool(FALSE)}

\* C8: over a catalog whose entries are all immutable mappings,
\* get_i5_index_sequencers returns exactly the entries that hold True or
\* False under revcomp_samplesheet_i5_index, each under its own name and
\* unchanged, and no entry that lacks the key; its names are those of
\* get_sequencers_w_key_value for True and for False, which share none.
C8_I5IndexTypes ==
    (/\ call.op = "get_i5_index_sequencers"
     /\ AllEntriesFrozen(CatalogInUse(call.existing)))
    => LET cat == CatalogInUse(call.existing)
           res == call.ret.res
           with_true == get_sequencers_w_key_value(
                            _REVCOMP_I5_KEY, PBool(TRUE), PNone, cat).res
           with_false == get_sequencers_w_key_value(
                             _REVCOMP_I5_KEY, PBool(FALSE), PNone, cat).res
       IN  /\ IsOk(res)
           /\ IsProxy(res.val)
           /\ Keys(res.val) =
                 {name \in Keys(cat) : DefinesRevcomp(Get(cat, name))}
           /\ \A name \in Keys(cat) :
                 _REVCOMP_I5_KEY \notin Keys(Get(cat, name))
                     => name \notin Keys(res.val)
           /\ Len(res.val.val) = Cardinality(Keys(res.val))
           /\ \A name \in Keys(res.val) :
                 Get(res.val, name) = Get(cat, name)
           /\ Keys(with_true.val) \cap Keys(with_false.val) = {}
           /\ Keys(res.val) = Keys(with_true.val) \cup Keys(with_false.val)

\* an entry holding True is returned and one without the key is left out
C8_Witness ==
    /\ call.op = "get_i5_index_sequencers"
    /\ call.existing = PNone
    /\ IsOk(call.ret.res)
    /\ Len(file.val) = 2
    /\ Len(call.ret.res.val.val) = 1
    /\ Get(call.ret.res.val.val[1].v, _REVCOMP_I5_KEY) = PBool(TRUE)
    /\ \E i \in 1..2 : /\ IsMapping(file.val[i].v)
                       /\ _REVCOMP_I5_KEY \notin Keys(file.val[i].v)

(* -------------------------------- C9 ---------------------------------- *)

\* C9: is_i5_revcomp_sequencer fails as NotFound when the name is no key of
\* the catalog, fails as MissingKey, naming the type and the key, when the
\* entry does not hold revcomp_samplesheet_i5_index, and otherwise returns
\* the value stored under that key.
C9_RevcompThreeOutcomes ==
    (/\ call.op = "is_i5_revcomp_sequencer"
     /\ IsProxy(CatalogInUse(call.existing)))
    => LET cat == CatalogInUse(call.existing)
           name == call.sequencer_type
           res == call.ret.res
       IN  IF name \notin Keys(cat)
           THEN res = ErrNotFound(name)
           ELSE IF /\ IsMapping(Get(cat, name))
                   /\ _REVCOMP_I5_KEY \in Keys(Get(cat, name))
           THEN res = Ok(Get(Get(cat, name), _REVCOMP_I5_KEY))
           ELSE res = ErrMissingKey(name, _REVCOMP_I5_KEY)

\* a type of the catalog without the key is reported as MissingKey
C9_Witness ==
    /\ call.op = "is_i5_revcomp_sequencer"
    /\ call.existing = PNone
    /\ call.sequencer_type \in Keys(file)
    /\ IsMapping(Get(file, call.sequencer_type))
    /\ call.ret.res = ErrMissingKey(call.sequencer_type, _REVCOMP_I5_KEY)

(* -------------------------------- C10 --------------------------------- *)

\* the functions a call may enter before the injected catalog is tested
BeforeTypeTest(op) == {op, "_load_sequencer_types", "get_sequencer_type"}

\* C10: every function that takes a catalog rejects one that is neither
\* None nor a MappingProxyType with InvalidArgument, having read no file and
\* entered no lookup; _load_sequencer_types hands a MappingProxyType back as
\* it is, having read no file.
C10_CatalogInjection ==
    ("existing" \in DOMAIN call)
    => /\ (call.existing # PNone /\ ~IsProxy(call.existing))
          => /\ call.ret.res = ErrInvalidArgument
             /\ call.ret.reads = 0
             /\ call.ret.calls \subseteq BeforeTypeTest(call.op)
       /\ IsProxy(call.existing)
          => /\ call.ret.reads = 0
             /\ "open" \notin call.ret.calls
             /\ call.op = "_load_sequencer_types"
                => call.ret.res = Ok(call.existing)

\* a plain dict is rejected although the id given with it is malformed
C10_Witness ==
    /\ call.op = "get_model_by_instrument_id"
    /\ call.existing = PlainDictCatalog
    /\ call.instrument_id = <<"8", "A">>
    /\ call.ret.res = ErrInvalidArgument
    /\ call.ret.reads = 0

(* ---------------------- freezing on its own ---------------------------- *)

PSet(elems) == [kind |-> "set", val |-> elems]
PFrozenSet(elems) == [kind |-> "frozenset", val |-> elems]

Scalars == {PStr("a"), PBool(TRUE), PNone}

\* a value a set may hold or a dict may be keyed by: a scalar, a frozenset,
\* or a tuple of such values
RECURSIVE IsHashable(_)
IsHashable(obj) ==
    IF obj.kind \in {"str", "bool", "none", "frozenset"} THEN TRUE
    ELSE IF obj.kind = "tuple"
    THEN \A i \in 1..Len(obj.val) : IsHashable(obj.val[i])
    ELSE FALSE

\* the sequences a list or tuple is built from: up to one element of any
\* kind, or two scalars
ElemSeqs(children) ==
    {<<>>} \cup {<<c>> : c \in children}
           \cup {<<a, b>> : a \in Scalars, b \in Scalars}

\* the items a dict or proxy is built from: up to one value of any kind,
\* or two scalars under two keys
ItemChoices(children) ==
    {<<>>} \cup {<<Item("k", c)>> : c \in children}
           \cup {<<Item("k", a), Item("j", b)>> : a \in Scalars, b \in Scalars}

\* the members a set or frozenset is built from: up to one hashable value,
\* or two scalars
MemberChoices(children) ==
    {{}} \cup {{c} : c \in {h \in children : IsHashable(h)}}
         \cup {{a, b} : a \in Scalars, b \in Scalars}

\* the structures of nesting depth up to n, built from dicts, mapping
\* proxies, lists, tuples, sets, frozensets and scalars
RECURSIVE Structures(_)
Structures(n) ==
    IF n = 0 THEN Scalars
    ELSE LET children == Structures(n - 1)
         IN  children
             \cup {PDict(items) : items \in ItemChoices(children)}
             \cup {PProxy(items) : items \in ItemChoices(children)}
             \cup {PList(elems) : elems \in ElemSeqs(children)}
             \cup {PTuple(elems) : elems \in ElemSeqs(children)}
             \cup {PSet(elems) : elems \in MemberChoices(children)}
             \cup {PFrozenSet(elems) : elems \in MemberChoices(children)}

\* an attempt to put an entry into a container: obj["new"] = value for a
\* mapping, obj.append(value) for a sequence, obj.add(value) for a set.  The
\* mutable types take it; MappingProxyType has no item assignment
\* (TypeError), tuple has no append and frozenset no add (AttributeError).
ErrAttributeError ==
    [kind |-> "raise", exc |-> "AttributeError", err |-> "AttributeError"]

TryInsert(obj, value) ==
    IF obj.kind = "dict"
    THEN Ok(PDict(Append(obj.val, Item("new", value))))
    ELSE IF obj.kind = "list" THEN Ok(PList(Append(obj.val, value)))
    ELSE IF obj.kind = "set" THEN Ok(PSet(obj.val \cup {value}))
    ELSE IF obj.kind = "proxy" THEN ErrTypeError
    ELSE ErrAttributeError

\* an attempt to take an entry out: del obj[key], obj.pop(), obj.pop()
TryRemove(obj) ==
    IF obj.kind = "dict"
    THEN IF obj.val = <<>> THEN ErrKeyError("new") ELSE Ok(PDict(Tail(obj.val)))
    ELSE IF obj.kind = "list"
    THEN IF obj.val = <<>> THEN ErrKeyError("pop") ELSE Ok(PList(Tail(obj.val)))
    ELSE IF obj.kind = "set"
    THEN IF obj.val = {} THEN ErrKeyError("pop")
         ELSE Ok(PSet(obj.val \ {CHOOSE v \in obj.val : TRUE}))
    ELSE IF obj.kind = "proxy" THEN ErrTypeError
    ELSE ErrAttributeError

InitFreeze ==
    /\ file = PDict(<<>>)
    /\ call = NoCall
    /\ registry = _INSTRUMENT_LOOKUP
    /\ catalog = PNone
    /\ threads = <<>>

DeepFreeze ==
    /\ Idle
    /\ \E obj \in Structures(MaxDepth) :
          call' = [op |-> "_deep_freeze", obj |-> obj,
                   ret |-> _deep_freeze(obj)]
    /\ UNCHANGED <<file, registry, catalog, threads>>

\* the caller tries to change what _deep_freeze gave back
MutateFrozen ==
    /\ call.op = "_deep_freeze"
    /\ \E how \in {"insert", "remove"} :
          call' = [op |-> "mutate", how |-> how, target |-> call.ret,
                   ret |-> IF how = "insert"
                           THEN TryInsert(call.ret, PNone)
                           ELSE TryRemove(call.ret)]
    /\ UNCHANGED <<file, registry, catalog, threads>>

NextFreeze ==
    \/ DeepFreeze
    \/ MutateFrozen
    \/ Return

SpecFreeze == InitFreeze /\ [][NextFreeze]_vars

(* -------------------------------- C11 --------------------------------- *)

\* the containers found in a value, itself included, at every depth
RECURSIVE Containers(_)
Containers(obj) ==
    IF obj.kind \in {"dict", "proxy"}
    THEN {obj} \cup UNION {Containers(obj.val[i].v) : i \in 1..Len(obj.val)}
    ELSE IF obj.kind \in {"list", "tuple"}
    THEN {obj} \cup UNION {Containers(obj.val[i]) : i \in 1..Len(obj.val)}
    ELSE IF obj.kind \in {"set", "frozenset"}
    THEN {obj} \cup UNION {Containers(v) : v \in obj.val}
    ELSE {}

\* y is x with every container in its frozen form: the same keys, elements
\* and order, scalars as they were
RECURSIVE FrozenImage(_, _)
FrozenImage(x, y) ==
    IF IsMapping(x)
    THEN /\ y.kind = "proxy"
         /\ Len(y.val) = Len(x.val)
         /\ \A i \in 1..Len(x.val) :
               /\ y.val[i].k = x.val[i].k
               /\ FrozenImage(x.val[i].v, y.val[i].v)
    ELSE IF x.kind \in {"list", "tuple"}
    THEN /\ y.kind = "tuple"
         /\ Len(y.val) = Len(x.val)
         /\ \A i \in 1..Len(x.val) : FrozenImage(x.val[i], y.val[i])
    ELSE IF x.kind \in {"set", "frozenset"}
    THEN /\ y.kind = "frozenset"
         /\ Cardinality(y.val) = Cardinality(x.val)
         /\ \A v \in x.val : \E w \in y.val : FrozenImage(v, w)
    ELSE y = x

\* C11 as stated: for every structure x, freezing the frozen x gives the
\* frozen x again; in the frozen x every mapping at every depth is
\* read-only, every list a tuple of the same elements in the same order,
\* every set a frozenset, every scalar unchanged; and every container of
\* the frozen x rejects an insertion and a removal.
C11_FreezeDeepIdempotent ==
    call.op = "_deep_freeze" =>
        /\ _deep_freeze(call.ret) = call.ret
        /\ FrozenImage(call.obj, call.ret)
        /\ \A c \in Containers(call.ret) :
              /\ c.kind \in {"proxy", "tuple", "frozenset"}
              /\ IsRaise(TryInsert(c, PNone))
              /\ IsRaise(TryRemove(c))

(* -------------------------------- C12 --------------------------------- *)

\* C12 as stated: whatever _load_sequencer_types returns, from the file or
\* from an injected mapping, holds no mutable container at any depth.
C12_LoadedCatalogDeeplyImmutable ==
    (call.op = "_load_sequencer_types" /\ IsOk(call.ret.res))
    => /\ IsProxy(call.ret.res.val)
       /\ IsImmutable(call.ret.res.val)

(* ------------------- concurrent callers of one snapshot ---------------- *)

\* the callers that share one snapshot
Callers == {"caller_a", "caller_b"}

\* the calls a caller makes on the shared snapshot
SharedCalls ==
    {[op |-> "get_model_by_instrument_id",
      instrument_id |-> <<"L", "H", "1">>],
     [op |-> "get_model_and_center",
      instrument_code |-> <<"L", "H", "0", "0", "4", "4", "4", "_", "0">>],
     [op |-> "get_sequencers_w_key_value",
      key |-> _REVCOMP_I5_KEY, value |-> PBool(TRUE), default |-> PNone],
     [op |-> "get_i5_index_sequencers"],
     [op |-> "get_sequencer_type", sequencer_type |-> "NovaSeqX"],
     [op |-> "is_i5_revcomp_sequencer", sequencer_type |-> "MiniSeq"]}

\* what the call c returns when it is handed the snapshot sequencer_types
Answer(c, sequencer_types) ==
    CASE c.op = "get_model_by_instrument_id" ->
             get_model_by_instrument_id(c.instrument_id, sequencer_types)
      [] c.op = "get_model_and_center" ->
             get_model_and_center(c.instrument_code)
      [] c.op = "get_sequencers_w_key_value" ->
             get_sequencers_w_key_value(c.key, c.value, c.default,
                                        sequencer_types)
      [] c.op = "get_i5_index_sequencers" ->
             get_i5_index_sequencers(sequencer_types)
      [] c.op = "get_sequencer_type" ->
             get_sequencer_type(c.sequencer_type, sequencer_types)
      [] c.op = "is_i5_revcomp_sequencer" ->
             is_i5_revcomp_sequencer(c.sequencer_type, sequencer_types)

\* the snapshot is loaded once from the bundled file and then shared
InitShared ==
    /\ file \in Files
    /\ call = NoCall
    /\ registry = _INSTRUMENT_LOOKUP
    /\ catalog = _load_sequencer_types(PNone, "None").res.val
    /\ threads = [t \in Callers |-> [pc |-> "idle"]]

\* a caller starts a call
Invoke ==
    /\ \E t \in Callers, c \in SharedCalls :
          /\ threads[t].pc = "idle"
          /\ threads' = [threads EXCEPT ![t] = [pc |-> "invoked", c |-> c]]
    /\ UNCHANGED <<file, call, registry, catalog>>

\* a query that keeps what it found as the shared snapshot
RunCall_keeps_matches ==
    /\ \E t \in Callers :
          /\ threads[t].pc = "invoked"
          /\ LET ret == Answer(threads[t].c, catalog)
             IN  /\ threads' = [threads EXCEPT ![t] =
                        [pc |-> "done", c |-> threads[t].c, ret |-> ret]]
                 /\ catalog' =
                        IF /\ threads[t].c.op = "get_sequencers_w_key_value"
                           /\ IsOk(ret.res)
                        THEN ret.res.val
                        ELSE catalog
    /\ UNCHANGED <<file, call, registry>>

\* the call runs: it reads the snapshot and the registry and assigns to
\* neither
RunCall ==
    /\ \E t \in Callers :
          /\ threads[t].pc = "invoked"
          /\ threads' = [threads EXCEPT ![t] =
                 [pc |-> "done", c |-> threads[t].c,
                  ret |-> Answer(threads[t].c, catalog)]]
    /\ UNCHANGED <<file, call, registry, catalog>>

\* the caller takes the outcome and is free for its next call
Collect ==
    /\ \E t \in Callers :
          /\ threads[t].pc = "done"
          /\ threads' = [threads EXCEPT ![t] = [pc |-> "idle"]]
    /\ UNCHANGED <<file, call, registry, catalog>>

NextShared ==
    \/ Invoke
    \/ RunCall
    \/ Collect

SpecShared == InitShared /\ [][NextShared]_vars

(* -------------------------------- C13 --------------------------------- *)

Offending(cat) == {i \in 1..Len(cat.val) : ~IsProxy(cat.val[i].v)}

\* the call hands the catalog to get_sequencers_w_key_value: the find
\* itself, the i5 query, and the model resolution once it has a prefix
ReachesFind ==
    \/ call.op \in {"get_sequencers_w_key_value", "get_i5_index_sequencers"}
    \/ /\ call.op = "get_model_by_instrument_id"
       /\ FirstDigit(call.instrument_id) > 1
       /\ ~HasLineBreak(LeadingRun(call.instrument_id))

\* C14: when the catalog holds at least one entry that is no immutable
\* mapping, get_sequencers_w_key_value fails with SchemaViolation naming the
\* first such entry, for every key, value and default, whether or not other
\* entries match; so do get_i5_index_sequencers and, once it has extracted a
\* prefix, get_model_by_instrument_id; no mapping of matches is returned.
C14_SchemaViolation ==
    LET cat == CatalogInUse(call.existing)
    IN  (/\ ReachesFind
         /\ IsProxy(cat)
         /\ Offending(cat) # {})
        => LET first == CHOOSE i \in Offending(cat) :
                            \A j \in Offending(cat) : i <= j
           IN  call.ret.res = ErrSchemaViolation(cat.val[first].k)

\* a find for revcomp True over a catalog whose first entry matches and
\* whose second entry is a string fails naming the second
C14_Witness ==
    /\ call.op = "get_sequencers_w_key_value"
    /\ call.existing = MalformedCatalog
    /\ call.key = _REVCOMP_I5_KEY
    /\ call.value = PBool(TRUE)
    /\ Answers(MalformedCatalog.val[1].v, call.key, call.value, call.default)
    /\ call.ret.res = ErrSchemaViolation("HiSeq2500")

(* -------------------------------- C15 --------------------------------- *)

\* C15 as stated: for a run identifier whose first segment is a key of the
\* legacy registry while the registry's model tag is no type name of the
\* catalog, get_model_and_center fails with the NotFound error that
\* get_sequencer_type raises for that absent name, and returns no pair.
C15_LegacyTagNotFound ==
    (/\ call.op = "get_model_and_center"
     /\ Str(FirstSegment(call.instrument_code)) \in DOMAIN _INSTRUMENT_LOOKUP
     /\ _INSTRUMENT_LOOKUP[Str(FirstSegment(call.instrument_code))].model
            \notin Keys(_deep_freeze(file)))
    => LET row == _INSTRUMENT_LOOKUP[Str(FirstSegment(call.instrument_code))]
       IN  /\ call.ret.res = ErrNotFound(row.model)
           /\ call.ret.res = get_sequencer_type(row.model, PNone).res

(* -------------------------------- C16 --------------------------------- *)

\* the six public queries
PublicQueries ==
    {"get_model_by_instrument_id", "get_model_and_center",
     "get_sequencers_w_key_value", "get_i5_index_sequencers",
     "get_sequencer_type", "is_i5_revcomp_sequencer"}

\* C16 as stated: each of the six public queries has a catalog among its
\* arguments, and a call that is handed a frozen catalog answers without
\* the bundled file being opened or read.
C16_InjectedCatalogAlone ==
    call.op \in PublicQueries =>
        /\ "existing" \in DOMAIN call
        /\ IsProxy(call.existing) =>
               /\ call.ret.reads = 0
               /\ "open" \notin call.ret.calls

(* -------------------------------- C17 --------------------------------- *)

\* the type names of the catalogs above as sorted() orders them
SortedTypeNames ==
    <<"HiSeq1500", "HiSeq2500", "MiniSeq", "NovaSeq6000", "NovaSeqX",
      "NovaSeqXPlus">>

Rank(name) == CHOOSE i \in 1..Len(SortedTypeNames) : SortedTypeNames[i] = name

InSortedOrder(names) ==
    \A i, j \in 1..Len(names) : i < j => Rank(names[i]) < Rank(names[j])

\* C17 as stated: the names an Ambiguous error reports are in sorted order,
\* whatever the order of the entries in the catalog.
C17_AmbiguousNamesSorted ==
    (/\ call.op \in {"get_model_by_instrument_id", "get_model_and_center"}
     /\ IsRaise(call.ret.res)
     /\ call.ret.res.err = "Ambiguous")
    => InSortedOrder(call.ret.res.names)

(* -------------------------------- C18 --------------------------------- *)

\* C18: a public query that is handed no catalog reads the bundled file
\* exactly once, although it enters the loader and other queries; a public
\* query that is handed a frozen catalog reads it not at all.
C18_OneReadPerQuery ==
    call.op \in PublicQueries =>
        /\ ("existing" \notin DOMAIN call \/ call.existing = PNone)
           => call.ret.reads = 1
        /\ ("existing" \in DOMAIN call /\ IsProxy(call.existing))
           => /\ call.ret.reads = 0
              /\ "open" \notin call.ret.calls

\* the i5 query without a catalog: it loads, runs its two finds on the
\* loaded snapshot, returns a mapping with an entry, and has read once
C18_Witness ==
    /\ call.op = "get_i5_index_sequencers"
    /\ call.existing = PNone
    /\ {"_load_sequencer_types", "get_sequencers_w_key_value", "open"}
           \subseteq call.ret.calls
    /\ IsOk(call.ret.res)
    /\ call.ret.res.val.val # <<>>
    /\ call.ret.reads = 1

(* -------------------------------- C19 --------------------------------- *)

\* C19 as stated: over a catalog whose entries are all immutable mappings,
\* is_i5_revcomp_sequencer returns a value for a type name exactly when the
\* name is a key of what get_i5_index_sequencers returns for that catalog,
\* and the value is then the revcomp_samplesheet_i5_index stored under that
\* name there and is True or False.
C19_I5QueriesAgree ==
    (/\ call.op = "is_i5_revcomp_sequencer"
     /\ AllEntriesFrozen(CatalogInUse(call.existing)))
    => LET i5 == get_i5_index_sequencers(call.existing).res
           res == call.ret.res
       IN  /\ IsOk(i5)
           /\ IsOk(res) <=> call.sequencer_type \in Keys(i5.val)
           /\ IsOk(res) =>
                 /\ res.val = Get(Get(i5.val, call.sequencer_type),
                                  _REVCOMP_I5_KEY)
                 /\ res.val \in {PBool(TRUE), PBool(FALSE)}

====
